---- MODULE Spec2Model ----
(***************************************************************************)
(* Model of the go-cryptocom REST client: the Client configuration         *)
(* (New / UpdateConfig and its options), the private (signed, POST) and    *)
(* public (GET) endpoint operations, the Requester transport wrapper and   *)
(* the response classification of CheckErrorResponse.                      *)
(*                                                                         *)
(* Strings that the code takes apart (URLs, json.Number codes) are         *)
(* sequences of pieces; Go maps are TLA+ functions over their key set;     *)
(* a Go error is the sequence of the layers of its Unwrap chain, the       *)
(* outermost first, and the nil error is the empty sequence.               *)
(***************************************************************************)
EXTENDS Integers, Sequences, FiniteSets, TLC

(***************************************************************************)
(* Bounds of the model.                                                    *)
(***************************************************************************)
\* request ids the id generator may hand out are 1..MaxID
MaxID == 2
\* the clock shows 0..MaxTime milliseconds
MaxTime == 1
\* an UpdateConfig call carries at most MaxOpts options
MaxOpts == 1
\* the pages with entries the server of the enumerating caller holds
NonEmptyPages == 3
\* the most entries of a parameter structure handed to the canonicalizer
MaxKeys == 3

\* goroutines that call endpoint operations
Callers == {"g1", "g2"}
\* the one caller of the specifications with a single calling goroutine
MainCaller == "g1"

(***************************************************************************)
(* Program constants.                                                      *)
(***************************************************************************)
uatSandboxBaseURL == <<"https://", "uat-api.3ona.co", "/v2/">>
productionBaseURL == <<"https://", "api.crypto.com", "/v2/">>
\* a base URL given by WithBaseURL, as the tests do for httptest servers
customBaseURL == <<"http://", "127.0.0.1", "/">>
\* a base URL that net/url does not parse: nothing before the colon
malformedBaseURL == <<"://", "127.0.0.1", "/">>
\* the empty string
EmptyString == <<>>

V1 == "exchange/v1/"
V2 == "v2/"

methodGetDepositHistory == "private/get-deposit-history"
methodGetWithdrawalHistory == "private/get-withdrawal-history"
methodGetDepositAddress == "private/get-deposit-address"
methodCreateWithdrawal == "private/create-withdrawal"
methodUserBalanceHistory == "private/user-balance-history"
methodGetInstruments == "public/get-instruments"
methodGetBook == "public/get-book"
methodGetTicker == "public/get-tickers"

ListingOps == {"GetDepositHistory", "GetWithdrawalHistory"}
PrivateOps == {"GetDepositHistory", "GetWithdrawalHistory", "GetDepositAddress",
               "CreateWithdrawal", "UserBalanceHistory"}
PublicOps == {"GetInstruments", "GetBook", "GetTickers"}

MethodOf(o) ==
    CASE o = "GetDepositHistory" -> methodGetDepositHistory
      [] o = "GetWithdrawalHistory" -> methodGetWithdrawalHistory
      [] o = "GetDepositAddress" -> methodGetDepositAddress
      [] o = "CreateWithdrawal" -> methodCreateWithdrawal
      [] o = "UserBalanceHistory" -> methodUserBalanceHistory
      [] o = "GetInstruments" -> methodGetInstruments
      [] o = "GetBook" -> methodGetBook
      [] o = "GetTickers" -> methodGetTicker
      [] OTHER -> ""

\* the largest page size the listing endpoints accept
MaxPageSize == 200
\* HTTP statuses from this one on are failures
ErrorStatus == 400

(***************************************************************************)
(* Errors.  A layer is a record of one shape; a chain is a sequence.       *)
(***************************************************************************)
Layer(kind, name, code, status) ==
    [kind |-> kind, name |-> name, code |-> code, status |-> status]

NilError == <<>>

\* fmt.Errorf("msg: %w", err)
Wrap(msg, err) == <<Layer("wrap", msg, 0, 0)>> \o err

\* errors.InvalidParameterError{Parameter, Reason}
InvalidParameterError(parameter, reason) ==
    <<Layer("InvalidParameterError", parameter, 0, 0), Layer("reason", reason, 0, 0)>>

\* the fixed code table of the errors package
responseErrors ==
    [c \in {10003, 10006, 10009} |->
        CASE c = 10003 -> "ErrIllegalIP"
          [] c = 10006 -> "ErrTooManyRequests"
          [] c = 10009 -> "ErrInvalidDateRange"]

Sentinel(name) == Layer("sentinel", name, 0, 0)

\* errors.ResponseError{Code, HTTPStatusCode, Err}: the layer and, below it, Err
ResponseError(code, status, err) == <<Layer("ResponseError", "", code, status)>> \o err

\* errors.NewResponseError(httpStatusCode, code)
NewResponseError(httpStatusCode, code) ==
    ResponseError(code, httpStatusCode,
        IF code \in DOMAIN responseErrors
        THEN <<Sentinel(responseErrors[code])>>
        ELSE <<Layer("errorf", "unexpected error", 0, 0)>>)

\* errors.As(err, &ResponseError{}): the first ResponseError of the chain
HasResponseError(err) == \E i \in 1..Len(err) : err[i].kind = "ResponseError"
AsResponseError(err) ==
    LET i == CHOOSE j \in 1..Len(err) :
                 /\ err[j].kind = "ResponseError"
                 /\ \A k \in 1..(j - 1) : err[k].kind # "ResponseError"
    IN  [Code |-> err[i].code, HTTPStatusCode |-> err[i].status,
         Err |-> SubSeq(err, i + 1, Len(err))]

\* errors.Is(err, target) for a target that is one layer
ErrorsIs(err, target) == \E i \in 1..Len(err) : err[i] = target

(***************************************************************************)
(* json.Number: the text of the code, one character per element.           *)
(***************************************************************************)
DigitValue ==
    [d \in {"0", "1", "2", "3", "4", "5", "6", "7", "8", "9"} |->
        CASE d = "0" -> 0 [] d = "1" -> 1 [] d = "2" -> 2 [] d = "3" -> 3
          [] d = "4" -> 4 [] d = "5" -> 5 [] d = "6" -> 6 [] d = "7" -> 7
          [] d = "8" -> 8 [] d = "9" -> 9]

IsDigits(s) == Len(s) > 0 /\ \A i \in 1..Len(s) : s[i] \in DOMAIN DigitValue

\* the integer part of a JSON number: no leading zero
IsIntPart(s) == IsDigits(s) /\ (Len(s) = 1 \/ s[1] # "0")

RECURSIVE Decimal(_)
Decimal(s) ==
    IF s = <<>> THEN 0
    ELSE 10 * Decimal(SubSeq(s, 1, Len(s) - 1)) + DigitValue[s[Len(s)]]

\* json.Number.Int64: strconv.ParseInt(text, 10, 64)
Int64(n) ==
    LET signed == Len(n) > 0 /\ n[1] \in {"+", "-"}
        digits == IF signed THEN Tail(n) ELSE n
    IN  IF ~IsDigits(digits) THEN [ok |-> FALSE, val |-> 0]
        ELSE [ok |-> TRUE,
              val |-> IF signed /\ n[1] = "-" THEN 0 - Decimal(digits)
                      ELSE Decimal(digits)]

\* the number literals encoding/json accepts for a json.Number
IsValidNumber(s) ==
    LET unsigned == IF Len(s) > 0 /\ s[1] = "-" THEN Tail(s) ELSE s
        dots == {i \in 1..Len(unsigned) : unsigned[i] = "."}
    IN  \/ IsIntPart(unsigned)
        \/ \E i \in dots :
              /\ IsIntPart(SubSeq(unsigned, 1, i - 1))
              /\ IsDigits(SubSeq(unsigned, i + 1, Len(unsigned)))

(***************************************************************************)
(* time.Time: the zero value, or an instant given in Unix milliseconds.    *)
(***************************************************************************)
ZeroTime == <<>>
TimeAt(ms) == <<ms>>
IsZero(t) == t = ZeroTime
UnixMilli(t) == t[1]

(***************************************************************************)
(* State.                                                                  *)
(***************************************************************************)
VARIABLES
    \* Client
    apiKey, secretKey, clock, idGenerator, signatureGenerator, requester,
    \* the wall clock, in milliseconds
    now,
    \* UpdateConfig in progress: position, arguments still to apply, result
    ucPc, ucArgs, ucRet,
    \* the configuration of the Client when the UpdateConfig in progress was
    \* called
    before,
    \* per caller: position in the endpoint operation and its arguments
    pc, op, req,
    \* per caller: the locals id, timestamp, params, the SignatureRequest,
    \* signature and body of the operation
    id, timestamp, params, sigReq, signature, body,
    \* per caller: the request handed to the transport, the number of
    \* transport calls of this operation, the transport's answer
    wire, exchanges, res,
    \* per caller: the returned (result, error) and the steps taken so far
    ret, trace,
    \* per caller: the context.Context of the call
    ctx,
    \* per caller: the nonce of the last request the recording transport saw
    lastNonce,
    \* what the program holds as its *Client: the Client, or nil
    client,
    \* per caller: a parameter structure handed to the canonicalizer and the
    \* string it gave
    structure, canonical

cfgVars == <<apiKey, secretKey, clock, idGenerator, signatureGenerator, requester>>
ucVars == <<ucPc, ucArgs, ucRet, before>>
localVars == <<id, timestamp, params, sigReq, signature, body>>
ioVars == <<wire, exchanges, res>>
callVars == <<pc, op, req, localVars, ioVars, ret, trace>>
canonVars == <<structure, canonical>>
envVars == <<ctx, lastNonce, client, canonVars>>
vars == <<cfgVars, now, ucVars, callVars, envVars>>

(***************************************************************************)
(* Initial values of the locals, before the code assigns them.             *)
(***************************************************************************)
NoReq == [none |-> TRUE]
NoParams == [none |-> TRUE]
\* a nil map[string]interface{}
NilParams == [null |-> TRUE]
NoSigReq == [APIKey |-> "", SecretKey |-> "", ID |-> 0, Method |-> "",
             Timestamp |-> 0, Params |-> NoParams]
\* the zero api.Request
ZeroRequest == [ID |-> 0, Method |-> "", Nonce |-> 0, Params |-> NilParams,
                Signature |-> <<>>, APIKey |-> "", Version |-> ""]
NoWire == [httpMethod |-> "", url |-> <<>>, query |-> <<>>, body |-> <<>>]
NoResponse == [kind |-> "none"]
NoReturn == [nil |-> TRUE, result |-> <<>>, err |-> NilError]
NoArgs == [apiKey |-> "", secretKey |-> "", opts |-> <<>>, new |-> FALSE]
\* no UpdateConfig in progress
NoConfig == [none |-> TRUE]
\* no request seen yet
NoNonce == <<>>
\* a nil parameter structure
NoStructure == [t |-> "nil", s |-> "", n |-> 0, e |-> <<>>]

(***************************************************************************)
(* New: the Client as constructed with credentials and no options.         *)
(***************************************************************************)
Init ==
    /\ apiKey = "k1"
    /\ secretKey = "s1"
    /\ clock = "RealClock"
    /\ idGenerator = "id.Generator"
    /\ signatureGenerator = "auth.Generator"
    /\ requester = [Client |-> "http.DefaultClient", BaseURL |-> productionBaseURL]
    /\ now = 0
    /\ ucPc = "idle"
    /\ ucArgs = NoArgs
    /\ ucRet = NilError
    /\ before = NoConfig
    /\ pc = [c \in Callers |-> "idle"]
    /\ op = [c \in Callers |-> ""]
    /\ req = [c \in Callers |-> NoReq]
    /\ id = [c \in Callers |-> 0]
    /\ timestamp = [c \in Callers |-> 0]
    /\ params = [c \in Callers |-> NoParams]
    /\ sigReq = [c \in Callers |-> NoSigReq]
    /\ signature = [c \in Callers |-> <<>>]
    /\ body = [c \in Callers |-> ZeroRequest]
    /\ wire = [c \in Callers |-> NoWire]
    /\ exchanges = [c \in Callers |-> 0]
    /\ res = [c \in Callers |-> NoResponse]
    /\ ret = [c \in Callers |-> NoReturn]
    /\ trace = [c \in Callers |-> <<>>]
    /\ ctx = [c \in Callers |-> "live"]
    /\ lastNonce = [c \in Callers |-> NoNonce]
    /\ client = "Client"
    /\ structure = [c \in Callers |-> NoStructure]
    /\ canonical = [c \in Callers |-> <<>>]

(***************************************************************************)
(* The clock advances on its own.                                          *)
(***************************************************************************)
Tick ==
    /\ now < MaxTime
    /\ now' = now + 1
    /\ UNCHANGED <<cfgVars, ucVars, callVars, envVars>>

(***************************************************************************)
(* UpdateConfig and the ClientOptions.                                     *)
(***************************************************************************)
Option(name, url, ptr) == [name |-> name, url |-> url, ptr |-> ptr]

\* the options that select the environment or the transport
EnvironmentOptions ==
    {Option("WithProductionEnvironment", EmptyString, "nil"),
     Option("WithUATEnvironment", EmptyString, "nil"),
     Option("WithBaseURL", EmptyString, "nil"),
     Option("WithBaseURL", customBaseURL, "nil"),
     Option("WithBaseURL", malformedBaseURL, "nil"),
     Option("WithHTTPClient", EmptyString, "nil")}

\* the options that replace a collaborator
CollaboratorOptions ==
    {Option("WithHTTPClient", EmptyString, "customClient"),
     Option("WithIDGenerator", EmptyString, "nil"),
     Option("WithIDGenerator", EmptyString, "mockIDGenerator"),
     Option("WithSignatureGenerator", EmptyString, "nil"),
     Option("WithSignatureGenerator", EmptyString, "mockSignatureGenerator"),
     Option("WithClock", EmptyString, "nil"),
     Option("WithClock", EmptyString, "FakeClock")}

RECURSIVE SeqsUpTo(_, _)
SeqsUpTo(S, n) ==
    IF n = 0 THEN {<<>>}
    ELSE LET shorter == SeqsUpTo(S, n - 1)
         IN  shorter \cup {Append(s, x) : s \in shorter, x \in S}

\* the error the option returns, NilError when it applies
OptionError(o) ==
    CASE o.name = "WithHTTPClient" /\ o.ptr = "nil" ->
            InvalidParameterError("httpClient", "cannot be empty")
      [] o.name = "WithIDGenerator" /\ o.ptr = "nil" ->
            InvalidParameterError("idGenerator", "cannot be empty")
      [] o.name = "WithSignatureGenerator" /\ o.ptr = "nil" ->
            InvalidParameterError("signatureGenerator", "cannot be empty")
      [] o.name = "WithClock" /\ o.ptr = "nil" ->
            InvalidParameterError("clock", "cannot be empty")
      [] o.name = "WithBaseURL" /\ o.url = EmptyString ->
            InvalidParameterError("url", "cannot be empty")
      [] OTHER -> NilError

\* WithUATEnvironment sets the production base URL
OptionRequesterOneEnvironment(o, r) ==
    CASE o.name = "WithProductionEnvironment" -> [r EXCEPT !.BaseURL = productionBaseURL]
      [] o.name = "WithUATEnvironment" -> [r EXCEPT !.BaseURL = productionBaseURL]
      [] o.name = "WithBaseURL" -> [r EXCEPT !.BaseURL = o.url]
      [] o.name = "WithHTTPClient" -> [r EXCEPT !.Client = o.ptr]
      [] OTHER -> r

\* the requester after the option applied
OptionRequester(o, r) ==
    CASE o.name = "WithProductionEnvironment" -> [r EXCEPT !.BaseURL = productionBaseURL]
      [] o.name = "WithUATEnvironment" -> [r EXCEPT !.BaseURL = uatSandboxBaseURL]
      [] o.name = "WithBaseURL" -> [r EXCEPT !.BaseURL = o.url]
      [] o.name = "WithHTTPClient" -> [r EXCEPT !.Client = o.ptr]
      [] OTHER -> r

\* the secret key is looked at before the api key
CheckCredentialsSecretFirst(a, s) ==
    IF s = ""
    THEN /\ ucRet' = InvalidParameterError("secretKey", "cannot be empty")
         /\ ucPc' = "returned"
    ELSE IF a = ""
    THEN /\ ucRet' = InvalidParameterError("apiKey", "cannot be empty")
         /\ ucPc' = "returned"
    ELSE /\ ucRet' = NilError
         /\ ucPc' = "apiKey"

\* the switch on the empty credentials at the head of UpdateConfig
CheckCredentials(a, s) ==
    IF a = ""
    THEN /\ ucRet' = InvalidParameterError("apiKey", "cannot be empty")
         /\ ucPc' = "returned"
    ELSE IF s = ""
    THEN /\ ucRet' = InvalidParameterError("secretKey", "cannot be empty")
         /\ ucPc' = "returned"
    ELSE /\ ucRet' = NilError
         /\ ucPc' = "apiKey"

\* the fields of the Client as they are now
CurrentConfig ==
    [apiKey |-> apiKey, secretKey |-> secretKey, clock |-> clock,
     idGenerator |-> idGenerator, signatureGenerator |-> signatureGenerator,
     requester |-> requester]

\* the &Client{...} of New
NewConfig ==
    [apiKey |-> "", secretKey |-> "", clock |-> "RealClock",
     idGenerator |-> "id.Generator", signatureGenerator |-> "auth.Generator",
     requester |-> [Client |-> "http.DefaultClient", BaseURL |-> productionBaseURL]]

\* UpdateConfig is called on the Client
UpdateConfig(Keys, Secrets, Opts) ==
    /\ ucPc = "idle"
    /\ client # "nil"
    /\ \E a \in Keys, s \in Secrets, os \in SeqsUpTo(Opts, MaxOpts) :
          /\ ucArgs' = [apiKey |-> a, secretKey |-> s, opts |-> os, new |-> FALSE]
          /\ CheckCredentials(a, s)
    /\ before' = CurrentConfig
    /\ UNCHANGED <<cfgVars, now, envVars, callVars>>

\* New is called: a Client with the default collaborators and the
\* production base URL is made and UpdateConfig is called on it; the program
\* holds no Client until New has returned one
New(Keys, Secrets, Opts) ==
    /\ ucPc = "idle"
    /\ \E a \in Keys, s \in Secrets, os \in SeqsUpTo(Opts, MaxOpts) :
          /\ ucArgs' = [apiKey |-> a, secretKey |-> s, opts |-> os, new |-> TRUE]
          /\ CheckCredentials(a, s)
    /\ apiKey' = NewConfig.apiKey
    /\ secretKey' = NewConfig.secretKey
    /\ clock' = NewConfig.clock
    /\ idGenerator' = NewConfig.idGenerator
    /\ signatureGenerator' = NewConfig.signatureGenerator
    /\ requester' = NewConfig.requester
    /\ before' = NewConfig
    /\ client' = "nil"
    /\ UNCHANGED <<now, callVars, ctx, lastNonce, canonVars>>

\* c.apiKey = apiKey
SetAPIKey ==
    /\ ucPc = "apiKey"
    /\ apiKey' = ucArgs.apiKey
    /\ ucPc' = "secretKey"
    /\ UNCHANGED <<secretKey, clock, idGenerator, signatureGenerator, requester,
                   now, envVars, ucArgs, ucRet, before, callVars>>

\* c.secretKey = secretKey
SetSecretKey ==
    /\ ucPc = "secretKey"
    /\ secretKey' = ucArgs.secretKey
    /\ ucPc' = "opts"
    /\ UNCHANGED <<apiKey, clock, idGenerator, signatureGenerator, requester,
                   now, envVars, ucArgs, ucRet, before, callVars>>

\* one round of the loop over opts: the next option runs, or the loop ends
ApplyOption ==
    /\ ucPc = "opts"
    /\ IF ucArgs.opts = <<>>
       THEN /\ ucPc' = "returned"
            /\ UNCHANGED <<cfgVars, ucArgs, ucRet>>
       ELSE LET o == Head(ucArgs.opts) IN
            IF OptionError(o) # NilError
            THEN /\ ucRet' = OptionError(o)
                 /\ ucPc' = "returned"
                 /\ UNCHANGED <<cfgVars, ucArgs>>
            ELSE /\ requester' = OptionRequester(o, requester)
                 /\ idGenerator' = IF o.name = "WithIDGenerator" THEN o.ptr ELSE idGenerator
                 /\ signatureGenerator' =
                        IF o.name = "WithSignatureGenerator" THEN o.ptr ELSE signatureGenerator
                 /\ clock' = IF o.name = "WithClock" THEN o.ptr ELSE clock
                 /\ ucArgs' = [ucArgs EXCEPT !.opts = Tail(@)]
                 /\ UNCHANGED <<apiKey, secretKey, ucPc, ucRet>>
    /\ UNCHANGED <<now, envVars, callVars, before>>

\* UpdateConfig returns to its caller; New hands out the Client when
\* UpdateConfig gave no error, and nil when it gave one
UpdateConfigReturn ==
    /\ ucPc = "returned"
    /\ ucPc' = "idle"
    /\ ucArgs' = NoArgs
    /\ ucRet' = NilError
    /\ before' = NoConfig
    /\ client' = IF ~ucArgs.new THEN client
                 ELSE IF ucRet = NilError THEN "Client" ELSE "nil"
    /\ UNCHANGED <<cfgVars, now, callVars, ctx, lastNonce, canonVars>>

(***************************************************************************)
(* Request arguments the callers use.                                      *)
(***************************************************************************)
PageSizes == {0 - 1, 0, 1, MaxPageSize, MaxPageSize + 1}
StartTimes == {ZeroTime, TimeAt(0)}
\* thirty hours after the start
EndTimes == {ZeroTime, TimeAt(30 * 3600000)}

HistoryRequests ==
    [Currency : {"", "BTC"}, Start : StartTimes, End : EndTimes,
     PageSize : PageSizes, Page : {0, 1}, Status : {"", "1"}]
DepositAddressRequests == [Currency : {"", "BTC"}]
CreateWithdrawalRequests ==
    [Currency : {"", "BTC"}, Amount : {0, 1}, Address : {"", "addr"},
     ClientWid : {""}, AddressTag : {"", "tag"}, NetworkId : {""}]
UserBalanceHistoryRequests ==
    [Timeframe : {"", "H1"}, EndTime : EndTimes, Limit : {0, 1}]
BookRequests == [instrument : {"", "BTC_USDT"}, depth : {0, 1}]
TickerRequests == [instrument : {"", "BTC_USDT"}]

(***************************************************************************)
(* What the transport may answer.                                          *)
(***************************************************************************)
Statuses == {200, ErrorStatus, 418}
\* texts of the code field: success, a code of the table, a code outside
\* it, a number that is no integer, a text that is no number
CodeTexts == {<<"0">>, <<"1", "0", "0", "0", "3">>, <<"4", "2">>,
              <<"1", ".", "5">>, <<"x">>}
Lists == {<<>>, <<"item">>}

Reply(status, bodyState, hasCode, code, list) ==
    [kind |-> "reply", cause |-> "", status |-> status, bodyState |-> bodyState,
     hasCode |-> hasCode, code |-> code, list |-> list]
TransportError(cause) ==
    [kind |-> "error", cause |-> cause, status |-> 0, bodyState |-> "",
     hasCode |-> FALSE, code |-> <<>>, list |-> <<>>]

Responses ==
    {TransportError(cause) : cause \in {"connection refused", "EOF"}}
    \cup {Reply(st, bs, FALSE, <<>>, <<>>) :
            st \in Statuses, bs \in {"unreadable", "malformed"}}
    \cup {Reply(st, "json", FALSE, <<>>, l) : st \in Statuses, l \in Lists}
    \cup {Reply(st, "json", TRUE, code, l) :
            st \in Statuses, code \in CodeTexts, l \in Lists}

(***************************************************************************)
(* Pre-flight validation of the listing endpoints.                         *)
(***************************************************************************)
\* the upper check is off by one
PageSizeErrorOffByOne(pageSize) ==
    IF pageSize < 0
    THEN InvalidParameterError("req.PageSize", "cannot be less than 0")
    ELSE IF pageSize > MaxPageSize + 1
    THEN InvalidParameterError("req.PageSize", "cannot be greater than 200")
    ELSE NilError

PageSizeError(pageSize) ==
    IF pageSize < 0
    THEN InvalidParameterError("req.PageSize", "cannot be less than 0")
    ELSE IF pageSize > MaxPageSize
    THEN InvalidParameterError("req.PageSize", "cannot be greater than 200")
    ELSE NilError

(***************************************************************************)
(* The params mapping of each private endpoint.                            *)
(***************************************************************************)
Keys(conds) == {k \in DOMAIN conds : conds[k]}

\* page_size is set without the test for 0
HistoryParamsAlwaysPageSize(r) ==
    LET present == [currency |-> r.Currency # "",
                    page_size |-> TRUE,
                    start_ts |-> ~IsZero(r.Start),
                    end_ts |-> ~IsZero(r.End),
                    page |-> TRUE,
                    status |-> r.Status # ""]
    IN  [k \in Keys(present) |->
            CASE k = "currency" -> r.Currency
              [] k = "page_size" -> r.PageSize
              [] k = "start_ts" -> UnixMilli(r.Start)
              [] k = "end_ts" -> UnixMilli(r.End)
              [] k = "page" -> r.Page
              [] k = "status" -> r.Status]

\* the page is sent one-based
HistoryParamsOneBasedPage(r) ==
    LET present == [currency |-> r.Currency # "",
                    page_size |-> r.PageSize # 0,
                    start_ts |-> ~IsZero(r.Start),
                    end_ts |-> ~IsZero(r.End),
                    page |-> TRUE,
                    status |-> r.Status # ""]
    IN  [k \in Keys(present) |->
            CASE k = "currency" -> r.Currency
              [] k = "page_size" -> r.PageSize
              [] k = "start_ts" -> UnixMilli(r.Start)
              [] k = "end_ts" -> UnixMilli(r.End)
              [] k = "page" -> r.Page + 1
              [] k = "status" -> r.Status]

\* start_ts and end_ts are sent in seconds
HistoryParamsSeconds(r) ==
    LET present == [currency |-> r.Currency # "",
                    page_size |-> r.PageSize # 0,
                    start_ts |-> ~IsZero(r.Start),
                    end_ts |-> ~IsZero(r.End),
                    page |-> TRUE,
                    status |-> r.Status # ""]
    IN  [k \in Keys(present) |->
            CASE k = "currency" -> r.Currency
              [] k = "page_size" -> r.PageSize
              [] k = "start_ts" -> UnixMilli(r.Start) \div 1000
              [] k = "end_ts" -> UnixMilli(r.End) \div 1000
              [] k = "page" -> r.Page
              [] k = "status" -> r.Status]

\* an unset currency is sent as the empty string
HistoryParamsPlaceholder(r) ==
    LET present == [currency |-> TRUE,
                    page_size |-> r.PageSize # 0,
                    start_ts |-> ~IsZero(r.Start),
                    end_ts |-> ~IsZero(r.End),
                    page |-> TRUE,
                    status |-> r.Status # ""]
    IN  [k \in Keys(present) |->
            CASE k = "currency" -> r.Currency
              [] k = "page_size" -> r.PageSize
              [] k = "start_ts" -> UnixMilli(r.Start)
              [] k = "end_ts" -> UnixMilli(r.End)
              [] k = "page" -> r.Page
              [] k = "status" -> r.Status]

HistoryParams(r) ==
    LET present == [currency |-> r.Currency # "",
                    page_size |-> r.PageSize # 0,
                    start_ts |-> ~IsZero(r.Start),
                    end_ts |-> ~IsZero(r.End),
                    page |-> TRUE,
                    status |-> r.Status # ""]
    IN  [k \in Keys(present) |->
            CASE k = "currency" -> r.Currency
              [] k = "page_size" -> r.PageSize
              [] k = "start_ts" -> UnixMilli(r.Start)
              [] k = "end_ts" -> UnixMilli(r.End)
              [] k = "page" -> r.Page
              [] k = "status" -> r.Status]

DepositAddressParams(r) ==
    [k \in Keys([currency |-> r.Currency # ""]) |-> r.Currency]

CreateWithdrawalParams(r) ==
    LET present == [currency |-> r.Currency # "",
                    client_wid |-> r.ClientWid # "",
                    amount |-> r.Amount # 0,
                    address |-> r.Address # "",
                    address_tag |-> r.AddressTag # "",
                    network_id |-> r.NetworkId # ""]
    IN  [k \in Keys(present) |->
            CASE k = "currency" -> r.Currency
              [] k = "client_wid" -> r.ClientWid
              [] k = "amount" -> r.Amount
              [] k = "address" -> r.Address
              [] k = "address_tag" -> r.AddressTag
              [] k = "network_id" -> r.NetworkId]

UserBalanceHistoryParams(r) ==
    LET present == [timeframe |-> r.Timeframe # "",
                    limit |-> r.Limit # 0,
                    end_time |-> ~IsZero(r.EndTime)]
    IN  [k \in Keys(present) |->
            CASE k = "timeframe" -> r.Timeframe
              [] k = "limit" -> r.Limit
              [] k = "end_time" -> UnixMilli(r.EndTime)]

ParamsOf(o, r) ==
    CASE o \in {"GetDepositHistory", "GetWithdrawalHistory"} -> HistoryParams(r)
      [] o = "GetDepositAddress" -> DepositAddressParams(r)
      [] o = "CreateWithdrawal" -> CreateWithdrawalParams(r)
      [] o = "UserBalanceHistory" -> UserBalanceHistoryParams(r)

(***************************************************************************)
(* The signature generator, an ideal keyed hash: the signature determines  *)
(* the key and every field that went into it.                              *)
(***************************************************************************)
Sign(sr) ==
    <<"HMAC", sr.SecretKey, sr.Method, sr.ID, sr.APIKey, sr.Params, sr.Timestamp>>

(***************************************************************************)
(* api.Request and its JSON encoding.                                      *)
(***************************************************************************)
\* the nonce is read from the clock again when the body is assembled
SignedRequestFreshNonce(o, i, ts, ps, sig, key) ==
    [ID |-> i, Method |-> MethodOf(o), Nonce |-> now, Params |-> ps,
     Signature |-> sig, APIKey |-> key,
     Version |-> IF o = "UserBalanceHistory" THEN V1 ELSE ""]

\* the body := api.Request{...} of a private endpoint
SignedRequest(o, i, ts, ps, sig, key) ==
    [ID |-> i, Method |-> MethodOf(o), Nonce |-> ts, Params |-> ps,
     Signature |-> sig, APIKey |-> key,
     Version |-> IF o = "UserBalanceHistory" THEN V1 ELSE ""]

\* the body := api.Request{ID, Method, Nonce} of GetInstruments
InstrumentsRequest(i, ts) ==
    [ZeroRequest EXCEPT !.ID = i, !.Method = methodGetInstruments, !.Nonce = ts]

\* json.Marshal(body): sig and api_key are omitempty
Marshal(b) ==
    LET present == [id |-> TRUE, method |-> TRUE, nonce |-> TRUE, params |-> TRUE,
                    sig |-> b.Signature # <<>>, api_key |-> b.APIKey # "",
                    version |-> TRUE]
    IN  [k \in Keys(present) |->
            CASE k = "id" -> b.ID
              [] k = "method" -> b.Method
              [] k = "nonce" -> b.Nonce
              [] k = "params" -> b.Params
              [] k = "sig" -> b.Signature
              [] k = "api_key" -> b.APIKey
              [] k = "version" -> b.Version]

\* the *http.Request that Requester.doRequest builds
RequesterRequest(httpMethod, b, method, r) ==
    [httpMethod |-> httpMethod,
     url |-> r.BaseURL \o <<IF b.Version # "" THEN b.Version ELSE V1, method>>,
     query |-> <<>>,
     body |-> <<Marshal(b)>>]

\* the *http.Request of GetBook
BookRequest(rq, r) ==
    LET present == [instrument_name |-> TRUE, depth |-> rq.depth > 0]
    IN  [httpMethod |-> "GET",
         url |-> r.BaseURL \o <<V2, methodGetBook>>,
         query |-> [k \in Keys(present) |->
                       IF k = "depth" THEN rq.depth ELSE rq.instrument],
         body |-> <<>>]

\* instrument_name is added without the test for the empty instrument
TickerRequestAlwaysInstrument(rq, r) ==
    [httpMethod |-> "GET",
     url |-> r.BaseURL \o <<V1, methodGetTicker>>,
     query |-> [k \in {"instrument_name"} |-> rq.instrument],
     body |-> <<>>]

\* the *http.Request of GetTickers
TickerRequest(rq, r) ==
    [httpMethod |-> "GET",
     url |-> r.BaseURL \o <<V1, methodGetTicker>>,
     query |-> [k \in Keys([instrument_name |-> rq.instrument # ""]) |-> rq.instrument],
     body |-> <<>>]

\* the error of http.NewRequestWithContext, NilError when the URL parses
NewRequestError(r) ==
    IF r.BaseURL # <<>> /\ r.BaseURL[1] = "://"
    THEN Wrap("failed to create request", <<Layer("url", "missing protocol scheme", 0, 0)>>)
    ELSE NilError

HTTPRequest(o, rq, b, r) ==
    CASE o = "GetBook" -> BookRequest(rq, r)
      [] o = "GetTickers" -> TickerRequest(rq, r)
      [] o = "GetInstruments" -> RequesterRequest("GET", b, MethodOf(o), r)
      [] OTHER -> RequesterRequest("POST", b, MethodOf(o), r)

(***************************************************************************)
(* Reading, decoding and classifying the response.                         *)
(***************************************************************************)
\* json.Unmarshal into the response struct with its api.BaseResponse
Unmarshal(r) ==
    IF r.bodyState # "json" \/ (r.hasCode /\ ~IsValidNumber(r.code))
    THEN [ok |-> FALSE, Code |-> <<>>, list |-> <<>>]
    ELSE [ok |-> TRUE, Code |-> IF r.hasCode THEN r.code ELSE <<>>, list |-> r.list]

\* the error of Client.Do is formatted into the message, not wrapped
ReadResponseDropsCause(r) ==
    IF r.kind = "error"
    THEN [statusCode |-> 0,
          err |-> <<Layer("errorf", "failed to do request", 0, 0)>>]
    ELSE IF r.bodyState = "unreadable"
    THEN [statusCode |-> 0,
          err |-> Wrap("failed to read response body", <<Layer("io", "read error", 0, 0)>>)]
    ELSE IF ~Unmarshal(r).ok
    THEN [statusCode |-> 0,
          err |-> Wrap("failed to unmarshal response body",
                       <<Layer("json", "cannot unmarshal", 0, 0)>>)]
    ELSE [statusCode |-> r.status, err |-> NilError]

\* Client.Do, ReadAll and Unmarshal: the status code and the error
ReadResponse(r) ==
    IF r.kind = "error"
    THEN [statusCode |-> 0,
          err |-> Wrap("failed to do request", <<Layer("transport", r.cause, 0, 0)>>)]
    ELSE IF r.bodyState = "unreadable"
    THEN [statusCode |-> 0,
          err |-> Wrap("failed to read response body", <<Layer("io", "read error", 0, 0)>>)]
    ELSE IF ~Unmarshal(r).ok
    THEN [statusCode |-> 0,
          err |-> Wrap("failed to unmarshal response body",
                       <<Layer("json", "cannot unmarshal", 0, 0)>>)]
    ELSE [statusCode |-> r.status, err |-> NilError]

\* status 400 itself is not taken as a failure
CheckErrorResponseAbove400(statusCode, responseCode) ==
    IF statusCode > ErrorStatus
    THEN LET code == Int64(responseCode)
         IN  IF ~code.ok
             THEN ResponseError(0, statusCode,
                                <<Layer("errorf", "invalid response code", 0, 0)>>)
             ELSE NewResponseError(statusCode, code.val)
    ELSE NilError

\* the parsed code is not handed on
CheckErrorResponseDropsCode(statusCode, responseCode) ==
    IF statusCode >= ErrorStatus
    THEN LET code == Int64(responseCode)
         IN  IF ~code.ok
             THEN ResponseError(0, statusCode,
                                <<Layer("errorf", "invalid response code", 0, 0)>>)
             ELSE NewResponseError(statusCode, 0)
    ELSE NilError

CheckErrorResponse(statusCode, responseCode) ==
    IF statusCode >= ErrorStatus
    THEN LET code == Int64(responseCode)
         IN  IF ~code.ok
             THEN ResponseError(0, statusCode,
                                <<Layer("errorf", "invalid response code", 0, 0)>>)
             ELSE NewResponseError(statusCode, code.val)
    ELSE NilError

Failure(err) == [nil |-> TRUE, result |-> <<>>, err |-> err]
Success(list) == [nil |-> FALSE, result |-> list, err |-> NilError]

\* the status is classified before the decoding error is looked at
OutcomeClassifiesFirst(o, r) ==
    LET rr == ReadResponse(r)
        classified == CheckErrorResponse(r.status, Unmarshal(r).Code)
    IN  IF r.kind = "reply" /\ r.bodyState # "unreadable" /\ classified # NilError
        THEN Failure(Wrap("error received in response", classified))
        ELSE IF rr.err # NilError
        THEN IF o \in {"GetBook", "GetTickers"}
             THEN Failure(rr.err)
             ELSE Failure(Wrap("failed to execute post request", rr.err))
        ELSE Success(Unmarshal(r).list)

\* what the endpoint operation returns once the transport has answered
Outcome(o, r) ==
    LET rr == ReadResponse(r)
        classified == CheckErrorResponse(rr.statusCode, Unmarshal(r).Code)
    IN  IF rr.err # NilError
        THEN IF o \in {"GetBook", "GetTickers"}
             THEN Failure(rr.err)
             ELSE Failure(Wrap("failed to execute post request", rr.err))
        ELSE IF classified # NilError
        THEN Failure(Wrap("error received in response", classified))
        ELSE Success(Unmarshal(r).list)

\* the steps of the exchange that ran, for the trace
OutcomeSteps(r) ==
    IF r.kind = "error" \/ r.bodyState = "unreadable" THEN <<>>
    ELSE IF ~Unmarshal(r).ok THEN <<"decode">>
    ELSE <<"decode", "classify">>

(***************************************************************************)
(* The endpoint operations, step by step.  pc[c] is the statement caller c *)
(* is about to run.                                                        *)
(***************************************************************************)
Enter(c, o, r) ==
    /\ pc[c] = "idle"
    /\ client # "nil"
    /\ op' = [op EXCEPT ![c] = o]
    /\ req' = [req EXCEPT ![c] = r]

\* the operation returns: its locals and its request are gone, the caller
\* holds the returned values
Leave(c, returned) ==
    /\ ret' = [ret EXCEPT ![c] = returned]
    /\ pc' = [pc EXCEPT ![c] = "returned"]
    /\ id' = [id EXCEPT ![c] = 0]
    /\ timestamp' = [timestamp EXCEPT ![c] = 0]
    /\ params' = [params EXCEPT ![c] = NoParams]
    /\ sigReq' = [sigReq EXCEPT ![c] = NoSigReq]
    /\ signature' = [signature EXCEPT ![c] = <<>>]
    /\ body' = [body EXCEPT ![c] = ZeroRequest]
    /\ wire' = [wire EXCEPT ![c] = NoWire]

\* GetDepositHistory / GetWithdrawalHistory are called: the page size checks
ListingCall(c, o, Reqs) ==
    /\ \E r \in Reqs :
          /\ Enter(c, o, r)
          /\ IF PageSizeError(r.PageSize) # NilError
             THEN Leave(c, Failure(PageSizeError(r.PageSize)))
             ELSE /\ pc' = [pc EXCEPT ![c] = "id"]
                  /\ UNCHANGED <<localVars, wire, ret>>
    /\ UNCHANGED <<cfgVars, now, envVars, ucVars, exchanges, res, trace>>

GetDepositHistory(c, Reqs) == ListingCall(c, "GetDepositHistory", Reqs)

GetWithdrawalHistory(c, Reqs) == ListingCall(c, "GetWithdrawalHistory", Reqs)

\* an operation without pre-flight checks is called
PlainCall(c, o, Reqs, first) ==
    /\ \E r \in Reqs : Enter(c, o, r)
    /\ pc' = [pc EXCEPT ![c] = first]
    /\ UNCHANGED <<cfgVars, now, envVars, ucVars, localVars, ioVars, ret, trace>>

GetDepositAddress(c, Reqs) == PlainCall(c, "GetDepositAddress", Reqs, "id")

CreateWithdrawal(c, Reqs) == PlainCall(c, "CreateWithdrawal", Reqs, "id")

UserBalanceHistory(c, Reqs) == PlainCall(c, "UserBalanceHistory", Reqs, "id")

GetInstruments(c) == PlainCall(c, "GetInstruments", {NoReq}, "id")

\* GetBook and GetTickers build their *http.Request themselves
GetBook(c, Reqs) == PlainCall(c, "GetBook", Reqs, "send")

GetTickers(c, Reqs) == PlainCall(c, "GetTickers", Reqs, "send")

\* id = c.idGenerator.Generate()
GenerateID(c) ==
    /\ pc[c] = "id"
    /\ \E i \in 1..MaxID : id' = [id EXCEPT ![c] = i]
    /\ trace' = [trace EXCEPT ![c] = Append(@, "id")]
    /\ pc' = [pc EXCEPT ![c] = "clock"]
    /\ UNCHANGED <<cfgVars, now, envVars, ucVars, op, req, timestamp, params, sigReq,
                   signature, body, ioVars, ret>>

\* the clock is read in seconds
ReadClockSeconds(c) ==
    /\ pc[c] = "clock"
    /\ timestamp' = [timestamp EXCEPT ![c] = now \div 1000]
    /\ trace' = [trace EXCEPT ![c] = Append(@, "clock")]
    /\ pc' = [pc EXCEPT ![c] = IF op[c] = "GetInstruments" THEN "body" ELSE "params"]
    /\ UNCHANGED <<cfgVars, now, envVars, ucVars, op, req, id, params, sigReq,
                   signature, body, ioVars, ret>>

\* timestamp = c.clock.Now().UnixMilli()
ReadClock(c) ==
    /\ pc[c] = "clock"
    /\ timestamp' = [timestamp EXCEPT ![c] = now]
    /\ trace' = [trace EXCEPT ![c] = Append(@, "clock")]
    /\ pc' = [pc EXCEPT ![c] = IF op[c] = "GetInstruments" THEN "body" ELSE "params"]
    /\ UNCHANGED <<cfgVars, now, envVars, ucVars, op, req, id, params, sigReq,
                   signature, body, ioVars, ret>>

\* one params mapping is shared by the calls in progress
BuildParamsShared(c) ==
    /\ pc[c] = "params"
    /\ params' = [x \in Callers |-> ParamsOf(op[c], req[c])]
    /\ pc' = [pc EXCEPT ![c] = "apiKey"]
    /\ UNCHANGED <<cfgVars, now, envVars, ucVars, op, req, id, timestamp, sigReq,
                   signature, body, ioVars, ret, trace>>

\* params = make(map[string]interface{}) and the assignments to it
BuildParams(c) ==
    /\ pc[c] = "params"
    /\ params' = [params EXCEPT ![c] = ParamsOf(op[c], req[c])]
    /\ pc' = [pc EXCEPT ![c] = "apiKey"]
    /\ UNCHANGED <<cfgVars, now, envVars, ucVars, op, req, id, timestamp, sigReq,
                   signature, body, ioVars, ret, trace>>

\* auth.SignatureRequest{APIKey: c.apiKey, ...
ReadAPIKey(c) ==
    /\ pc[c] = "apiKey"
    /\ sigReq' = [sigReq EXCEPT ![c] = [NoSigReq EXCEPT !.APIKey = apiKey]]
    /\ pc' = [pc EXCEPT ![c] = "secretKey"]
    /\ UNCHANGED <<cfgVars, now, envVars, ucVars, op, req, id, timestamp, params,
                   signature, body, ioVars, ret, trace>>

\* ... SecretKey: c.secretKey, ID: id, Method, Timestamp: timestamp, Params: params}
ReadSecretKey(c) ==
    /\ pc[c] = "secretKey"
    /\ sigReq' = [sigReq EXCEPT ![c] =
                     [APIKey |-> @.APIKey, SecretKey |-> secretKey, ID |-> id[c],
                      Method |-> MethodOf(op[c]), Timestamp |-> timestamp[c],
                      Params |-> params[c]]]
    /\ pc' = [pc EXCEPT ![c] = "sign"]
    /\ UNCHANGED <<cfgVars, now, envVars, ucVars, op, req, id, timestamp, params,
                   signature, body, ioVars, ret, trace>>

\* the error of the signature generator is formatted into the message, not
\* wrapped
GenerateSignatureDropsCause(c) ==
    /\ pc[c] = "sign"
    /\ trace' = [trace EXCEPT ![c] = Append(@, "sign")]
    /\ \/ /\ signature' = [signature EXCEPT ![c] = Sign(sigReq[c])]
          /\ pc' = [pc EXCEPT ![c] = "body"]
          /\ UNCHANGED <<id, timestamp, params, sigReq, body, wire, ret>>
       \/ Leave(c, Failure(<<Layer("errorf", "failed to create signature", 0, 0)>>))
    /\ UNCHANGED <<cfgVars, now, envVars, ucVars, op, req, exchanges, res>>

\* signature, err := c.signatureGenerator.GenerateSignature(...)
GenerateSignature(c) ==
    /\ pc[c] = "sign"
    /\ trace' = [trace EXCEPT ![c] = Append(@, "sign")]
    /\ \/ /\ signature' = [signature EXCEPT ![c] = Sign(sigReq[c])]
          /\ pc' = [pc EXCEPT ![c] = "body"]
          /\ UNCHANGED <<id, timestamp, params, sigReq, body, wire, ret>>
       \/ Leave(c, Failure(Wrap("failed to create signature",
                                <<Layer("errorf", "signature error", 0, 0)>>)))
    /\ UNCHANGED <<cfgVars, now, envVars, ucVars, op, req, exchanges, res>>

\* body := api.Request{...}
AssembleBody(c) ==
    /\ pc[c] = "body"
    /\ body' = [body EXCEPT ![c] =
                   IF op[c] = "GetInstruments"
                   THEN InstrumentsRequest(id[c], timestamp[c])
                   ELSE SignedRequest(op[c], id[c], timestamp[c], params[c],
                                      signature[c], apiKey)]
    /\ trace' = [trace EXCEPT ![c] = Append(@, "envelope")]
    /\ pc' = [pc EXCEPT ![c] = "send"]
    /\ UNCHANGED <<cfgVars, now, envVars, ucVars, op, req, id, timestamp, params, sigReq,
                   signature, ioVars, ret>>

\* the recording transport of a test keeps the nonce of the request it is
\* handed; http.DefaultClient keeps nothing
Recorded(c, r, b) ==
    IF r.Client = "customClient" /\ op[c] \in PrivateOps
    THEN [lastNonce EXCEPT ![c] = <<b.Nonce>>]
    ELSE lastNonce

\* the *http.Request is built and goes to the transport: Client.Do(req) is
\* entered, unless the request cannot be built
Send(c) ==
    /\ pc[c] = "send"
    /\ IF NewRequestError(requester) # NilError
       THEN /\ Leave(c, Failure(IF op[c] \in {"GetBook", "GetTickers"}
                                THEN NewRequestError(requester)
                                ELSE Wrap("failed to execute post request",
                                          NewRequestError(requester))))
            /\ UNCHANGED <<exchanges, trace, lastNonce>>
       ELSE /\ wire' = [wire EXCEPT ![c] =
                           HTTPRequest(op[c], req[c], body[c], requester)]
            /\ exchanges' = [exchanges EXCEPT ![c] = @ + 1]
            /\ trace' = [trace EXCEPT ![c] = Append(@, "transport")]
            /\ lastNonce' = Recorded(c, requester, body[c])
            /\ pc' = [pc EXCEPT ![c] = "wait"]
            /\ UNCHANGED <<localVars, ret>>
    /\ UNCHANGED <<cfgVars, now, ucVars, op, req, res, ctx, client, canonVars>>

\* Client.Do returns: with the error of the context once the context is
\* done, else with what the server answered or with a network failure; the
\* body is read, decoded and classified and the operation ends
\* Client.Do does not look at the context
ReceiveFromIgnoresContext(c, Answers) ==
    /\ pc[c] = "wait"
    /\ \E r \in Answers :
          /\ res' = [res EXCEPT ![c] = r]
          /\ Leave(c, Outcome(op[c], r))
          /\ trace' = [trace EXCEPT ![c] = @ \o OutcomeSteps(r)]
    /\ UNCHANGED <<cfgVars, now, envVars, ucVars, op, req, exchanges>>

\* a failed exchange is tried again
ReceiveFromRetries(c, Answers) ==
    /\ pc[c] = "wait"
    /\ \E r \in (IF ctx[c] = "live" THEN Answers ELSE {TransportError(ctx[c])}) :
          /\ res' = [res EXCEPT ![c] = r]
          /\ IF r.kind = "error"
             THEN /\ pc' = [pc EXCEPT ![c] = "send"]
                  /\ UNCHANGED <<localVars, wire, ret, trace>>
             ELSE /\ Leave(c, Outcome(op[c], r))
                  /\ trace' = [trace EXCEPT ![c] = @ \o OutcomeSteps(r)]
    /\ UNCHANGED <<cfgVars, now, envVars, ucVars, op, req, exchanges>>

ReceiveFrom(c, Answers) ==
    /\ pc[c] = "wait"
    /\ \E r \in (IF ctx[c] = "live" THEN Answers ELSE {TransportError(ctx[c])}) :
          /\ res' = [res EXCEPT ![c] = r]
          /\ Leave(c, Outcome(op[c], r))
          /\ trace' = [trace EXCEPT ![c] = @ \o OutcomeSteps(r)]
    /\ UNCHANGED <<cfgVars, now, envVars, ucVars, op, req, exchanges>>

Receive(c) == ReceiveFrom(c, Responses)

\* the caller is done with the returned values and ready for its next call
Return(c) ==
    /\ pc[c] = "returned"
    /\ pc' = [pc EXCEPT ![c] = "idle"]
    /\ op' = [op EXCEPT ![c] = ""]
    /\ req' = [req EXCEPT ![c] = NoReq]
    /\ exchanges' = [exchanges EXCEPT ![c] = 0]
    /\ res' = [res EXCEPT ![c] = NoResponse]
    /\ ret' = [ret EXCEPT ![c] = NoReturn]
    /\ trace' = [trace EXCEPT ![c] = <<>>]
    /\ ctx' = [ctx EXCEPT ![c] = "live"]
    /\ UNCHANGED <<cfgVars, now, ucVars, localVars, wire, lastNonce, client,
                   canonVars>>

(***************************************************************************)
(* Specification of a Client used by one goroutine: one endpoint call or   *)
(* one UpdateConfig at a time.                                             *)
(***************************************************************************)
NoCall == \A c \in Callers : pc[c] = "idle"
NoUpdate == ucPc = "idle"

Credentials == {"", "k2"}
Secrets == {"", "s2"}

Next ==
    \/ Tick
    \/ (NoCall /\ UpdateConfig(Credentials, Secrets, EnvironmentOptions))
    \/ SetAPIKey
    \/ SetSecretKey
    \/ ApplyOption
    \/ UpdateConfigReturn
    \/ (NoUpdate /\ GetDepositHistory(MainCaller, HistoryRequests))
    \/ (NoUpdate /\ GetWithdrawalHistory(MainCaller, HistoryRequests))
    \/ (NoUpdate /\ GetDepositAddress(MainCaller, DepositAddressRequests))
    \/ (NoUpdate /\ CreateWithdrawal(MainCaller, CreateWithdrawalRequests))
    \/ (NoUpdate /\ UserBalanceHistory(MainCaller, UserBalanceHistoryRequests))
    \/ (NoUpdate /\ GetInstruments(MainCaller))
    \/ (NoUpdate /\ GetBook(MainCaller, BookRequests))
    \/ (NoUpdate /\ GetTickers(MainCaller, TickerRequests))
    \/ GenerateID(MainCaller)
    \/ ReadClock(MainCaller)
    \/ BuildParams(MainCaller)
    \/ ReadAPIKey(MainCaller)
    \/ ReadSecretKey(MainCaller)
    \/ GenerateSignature(MainCaller)
    \/ AssembleBody(MainCaller)
    \/ Send(MainCaller)
    \/ Receive(MainCaller)
    \/ Return(MainCaller)

Spec == Init /\ [][Next]_vars

(***************************************************************************)
(* Specification of UpdateConfig running in one goroutine while another    *)
(* goroutine is inside GetDepositHistory.  Nothing in the Client orders    *)
(* the reads of c.apiKey and c.secretKey against the writes.               *)
(***************************************************************************)
RaceRequests ==
    {r \in HistoryRequests :
        /\ r.Currency = "BTC" /\ r.PageSize = 0 /\ r.Page = 0
        /\ r.Start = ZeroTime /\ r.End = ZeroTime /\ r.Status = ""}

NextRace ==
    \/ UpdateConfig({"k2"}, {"s2"}, {})
    \/ SetAPIKey
    \/ SetSecretKey
    \/ ApplyOption
    \/ UpdateConfigReturn
    \/ GetDepositHistory(MainCaller, RaceRequests)
    \/ GenerateID(MainCaller)
    \/ ReadClock(MainCaller)
    \/ BuildParams(MainCaller)
    \/ ReadAPIKey(MainCaller)
    \/ ReadSecretKey(MainCaller)
    \/ GenerateSignature(MainCaller)
    \/ AssembleBody(MainCaller)
    \/ Send(MainCaller)
    \/ Receive(MainCaller)
    \/ Return(MainCaller)

SpecRace == Init /\ [][NextRace]_vars

(***************************************************************************)
(* The canonical parameter string.  A parameter value is a text, a number, *)
(* an array of values or a mapping; a mapping is the sequence of its       *)
(* entries in the order in which it was built and yields them.  A string   *)
(* is the sequence of its pieces.                                          *)
(***************************************************************************)
Text(str) == [t |-> "text", s |-> str, n |-> 0, e |-> <<>>]
Number(num) == [t |-> "number", s |-> "", n |-> num, e |-> <<>>]
Array(elements) == [t |-> "array", s |-> "", n |-> 0, e |-> elements]
Mapping(entries) == [t |-> "mapping", s |-> "", n |-> 0, e |-> entries]
Entry(key, value) == [k |-> key, v |-> value]

\* the keys in use, in ascending bytewise order
KeyOrder == <<"a", "b", "currency", "filter", "ids", "page">>
Rank(key) == CHOOSE i \in 1..Len(KeyOrder) : KeyOrder[i] = key

\* a number in plain decimal
RECURSIVE FormatInt(_)
FormatInt(num) ==
    LET digit(d) == <<"0", "1", "2", "3", "4", "5", "6", "7", "8", "9">>[d + 1]
    IN  IF num < 10 THEN <<digit(num)>>
        ELSE FormatInt(num \div 10) \o <<digit(num % 10)>>

\* the entries by ascending key
RECURSIVE SortEntries(_)
SortEntries(entries) ==
    IF entries = <<>> THEN <<>>
    ELSE LET least == CHOOSE i \in 1..Len(entries) :
                          \A j \in 1..Len(entries) :
                              Rank(entries[i].k) <= Rank(entries[j].k)
             others == [j \in 1..(Len(entries) - 1) |->
                           IF j < least THEN entries[j] ELSE entries[j + 1]]
         IN  <<entries[least]>> \o SortEntries(others)

\* the entries are taken in the order in which the mapping yields them
EntriesAsBuilt(entries) == entries

\* the entries in the order in which the canonical string takes them
EntriesInOrder(entries) == SortEntries(entries)

\* canonicalize(params): each key is followed by the text of its value, the
\* keys ascending at every level, the elements of an array in their order
RECURSIVE Canonical(_)
Canonical(value) ==
    LET RECURSIVE Concat(_)
        Concat(values) ==
            IF values = <<>> THEN <<>>
            ELSE Canonical(Head(values)) \o Concat(Tail(values))
        RECURSIVE Render(_)
        Render(entries) ==
            IF entries = <<>> THEN <<>>
            ELSE <<Head(entries).k>> \o Canonical(Head(entries).v)
                 \o Render(Tail(entries))
    IN  CASE value.t = "text" -> <<value.s>>
          [] value.t = "number" -> FormatInt(value.n)
          [] value.t = "array" -> Concat(value.e)
          [] value.t = "mapping" -> Render(EntriesInOrder(value.e))
          [] OTHER -> <<>>

\* the entries a mapping of the given values may hold, and the mappings of
\* at most n entries in every order of building them
Entries(values) ==
    UNION {{Entry(key, value) : value \in values[key]} : key \in DOMAIN values}
Mappings(values, n) ==
    {Mapping(l) : l \in {m \in SeqsUpTo(Entries(values), n) :
                            \A i, j \in 1..Len(m) : i # j => m[i].k # m[j].k}}

NestedValues == [a |-> {Text("x")}, b |-> {Number(10)}]
ParamValues ==
    [currency |-> {Text("BTC")},
     page |-> {Number(0)},
     ids |-> {Array(<<Number(2), Number(1)>>)},
     filter |-> Mappings(NestedValues, 2) \ {Mapping(<<>>)}]
Structures == Mappings(ParamValues, MaxKeys)

\* a parameter structure is built and canonicalized
Canonicalize(c) ==
    /\ structure[c] = NoStructure
    /\ \E value \in Structures :
          /\ structure' = [structure EXCEPT ![c] = value]
          /\ canonical' = [canonical EXCEPT ![c] = Canonical(value)]
    /\ UNCHANGED <<cfgVars, now, ucVars, callVars, ctx, lastNonce, client>>

NextCanonical == \E c \in Callers : Canonicalize(c)

SpecCanonical == Init /\ [][NextCanonical]_vars

(***************************************************************************)
(* Specification of the configuration: New and UpdateConfig with valid and *)
(* empty credentials and with options of both kinds, and GetTickers in     *)
(* between.                                                                *)
(***************************************************************************)
ConfigOptions ==
    {o \in EnvironmentOptions : o.name # "WithHTTPClient" /\ o.url # malformedBaseURL}
    \cup {o \in CollaboratorOptions :
             \/ (o.name = "WithClock" /\ o.ptr # "nil")
             \/ (o.name = "WithIDGenerator" /\ o.ptr = "nil")}

ConfigResponses == {Reply(200, "json", TRUE, <<"0">>, <<"item">>)}

NextConfig ==
    \/ (NoCall /\ New(Credentials, Secrets, ConfigOptions))
    \/ (NoCall /\ UpdateConfig(Credentials, Secrets, ConfigOptions))
    \/ SetAPIKey
    \/ SetSecretKey
    \/ ApplyOption
    \/ UpdateConfigReturn
    \/ (NoUpdate /\ GetTickers(MainCaller, TickerRequests))
    \/ Send(MainCaller)
    \/ ReceiveFrom(MainCaller, ConfigResponses)
    \/ Return(MainCaller)

SpecConfig == Init /\ [][NextConfig]_vars

(***************************************************************************)
(* Specification of private calls one after the other on a Client whose    *)
(* transport, set with WithHTTPClient, keeps the nonce of each request.    *)
(***************************************************************************)
RecordingOptions == {o \in CollaboratorOptions : o.ptr = "customClient"}

OrderResponses ==
    {Reply(200, "json", TRUE, <<"0">>, <<"item">>), TransportError("EOF")}

NextOrder ==
    \/ Tick
    \/ (NoCall /\ UpdateConfig({"k2"}, {"s2"}, RecordingOptions))
    \/ SetAPIKey
    \/ SetSecretKey
    \/ ApplyOption
    \/ UpdateConfigReturn
    \/ (NoUpdate /\ GetDepositHistory(MainCaller, RaceRequests))
    \/ (NoUpdate /\ GetDepositAddress(MainCaller, DepositAddressRequests))
    \/ (NoUpdate /\ UserBalanceHistory(MainCaller, UserBalanceHistoryRequests))
    \/ GenerateID(MainCaller)
    \/ ReadClock(MainCaller)
    \/ BuildParams(MainCaller)
    \/ ReadAPIKey(MainCaller)
    \/ ReadSecretKey(MainCaller)
    \/ GenerateSignature(MainCaller)
    \/ AssembleBody(MainCaller)
    \/ Send(MainCaller)
    \/ ReceiveFrom(MainCaller, OrderResponses)
    \/ Return(MainCaller)

SpecOrder == Init /\ [][NextOrder]_vars

(***************************************************************************)
(* Specification of calls whose context the caller cancels, or whose       *)
(* deadline passes, while the call runs.  The server need not answer; once *)
(* the context is done Client.Do returns.                                  *)
(***************************************************************************)
ContextErrors == {"context canceled", "context deadline exceeded"}

\* the context of the call is done
Cancel(c) ==
    /\ pc[c] \notin {"idle", "returned"}
    /\ ctx[c] = "live"
    /\ \E e \in ContextErrors : ctx' = [ctx EXCEPT ![c] = e]
    /\ UNCHANGED <<cfgVars, now, ucVars, callVars, lastNonce, client, canonVars>>

CancelResponses ==
    {Reply(200, "json", TRUE, <<"0">>, <<"item">>),
     Reply(ErrorStatus, "json", TRUE, <<"1", "0", "0", "0", "3">>, <<>>)}

\* Client.Do returns because the context is done
Abort(c) == ctx[c] # "live" /\ ReceiveFrom(c, CancelResponses)

NextCancel ==
    \/ Tick
    \/ GetDepositHistory(MainCaller, RaceRequests)
    \/ GetTickers(MainCaller, TickerRequests)
    \/ Cancel(MainCaller)
    \/ GenerateID(MainCaller)
    \/ ReadClock(MainCaller)
    \/ BuildParams(MainCaller)
    \/ ReadAPIKey(MainCaller)
    \/ ReadSecretKey(MainCaller)
    \/ GenerateSignature(MainCaller)
    \/ AssembleBody(MainCaller)
    \/ Send(MainCaller)
    \/ ReceiveFrom(MainCaller, CancelResponses)
    \/ Return(MainCaller)

SpecCancel == Init /\ [][NextCancel]_vars /\ WF_vars(Abort(MainCaller))

(***************************************************************************)
(* Specification of a caller that enumerates a listing endpoint page by    *)
(* page, from page 0 until a call returns an empty list, against a server  *)
(* that holds NonEmptyPages pages with entries.                            *)
(***************************************************************************)
FirstPageRequests ==
    [Currency : {"", "BTC"}, Start : {ZeroTime}, End : {ZeroTime},
     PageSize : {0, 1}, Page : {0}, Status : {""}]

\* the page the server takes the request to ask for
RequestedPage(w) ==
    IF w.body # <<>> /\ "page" \in DOMAIN w.body[1].params
    THEN w.body[1].params.page
    ELSE 0

\* the answer of the server to the request w
PagedServer(w) ==
    {Reply(200, "json", TRUE, <<"0">>,
           IF RequestedPage(w) < NonEmptyPages THEN <<"item">> ELSE <<>>)}

\* the list was not empty: the caller asks for the next page
NextPage(c) ==
    /\ pc[c] = "returned"
    /\ op[c] \in ListingOps
    /\ ret[c].err = NilError
    /\ ret[c].result # <<>>
    /\ req' = [req EXCEPT ![c].Page = @ + 1]
    /\ pc' = [pc EXCEPT ![c] = "id"]
    /\ exchanges' = [exchanges EXCEPT ![c] = 0]
    /\ res' = [res EXCEPT ![c] = NoResponse]
    /\ ret' = [ret EXCEPT ![c] = NoReturn]
    /\ trace' = [trace EXCEPT ![c] = <<>>]
    /\ ctx' = [ctx EXCEPT ![c] = "live"]
    /\ UNCHANGED <<cfgVars, now, ucVars, op, localVars, wire, lastNonce, client,
                   canonVars>>

NextPages ==
    \/ Tick
    \/ GetDepositHistory(MainCaller, FirstPageRequests)
    \/ GetWithdrawalHistory(MainCaller, FirstPageRequests)
    \/ NextPage(MainCaller)
    \/ GenerateID(MainCaller)
    \/ ReadClock(MainCaller)
    \/ BuildParams(MainCaller)
    \/ ReadAPIKey(MainCaller)
    \/ ReadSecretKey(MainCaller)
    \/ GenerateSignature(MainCaller)
    \/ AssembleBody(MainCaller)
    \/ Send(MainCaller)
    \/ ReceiveFrom(MainCaller, PagedServer(wire[MainCaller]))

\* the caller runs on and the server answers every request
SpecPages == Init /\ [][NextPages]_vars /\ WF_vars(NextPages)

(***************************************************************************)
(* Specification of the listing endpoints called with and without a start *)
(* and an end, against a server that refuses the date range or answers.    *)
(***************************************************************************)
RangeRequests ==
    [Currency : {"", "BTC"}, Start : StartTimes, End : EndTimes,
     PageSize : {0, 1}, Page : {0}, Status : {""}]

\* the code of INVALID_DATE_RANGE, as the text of the code field
InvalidDateRange == <<"1", "0", "0", "0", "9">>

RangeResponses ==
    {Reply(st, "json", TRUE, InvalidDateRange, <<>>) : st \in Statuses}
    \cup {Reply(200, "json", TRUE, <<"0">>, l) : l \in Lists}

NextRange ==
    \/ Tick
    \/ GetDepositHistory(MainCaller, RangeRequests)
    \/ GetWithdrawalHistory(MainCaller, RangeRequests)
    \/ GenerateID(MainCaller)
    \/ ReadClock(MainCaller)
    \/ BuildParams(MainCaller)
    \/ ReadAPIKey(MainCaller)
    \/ ReadSecretKey(MainCaller)
    \/ GenerateSignature(MainCaller)
    \/ AssembleBody(MainCaller)
    \/ Send(MainCaller)
    \/ ReceiveFrom(MainCaller, RangeResponses)
    \/ Return(MainCaller)

SpecRange == Init /\ [][NextRange]_vars

(***************************************************************************)
(* Specification of two goroutines that call GetDepositHistory and         *)
(* GetWithdrawalHistory on the one Client at the same time; UpdateConfig   *)
(* is not called.                                                          *)
(***************************************************************************)
ConcurrentRequests ==
    {r \in HistoryRequests :
        /\ r.PageSize = 0 /\ r.Page = 0
        /\ r.Start = ZeroTime /\ r.End = ZeroTime /\ r.Status = ""}

NextConcurrent ==
    \/ Tick
    \/ \E c \in Callers :
          \/ GetDepositHistory(c, ConcurrentRequests)
          \/ GetWithdrawalHistory(c, ConcurrentRequests)
          \/ GenerateID(c)
          \/ ReadClock(c)
          \/ BuildParams(c)
          \/ ReadAPIKey(c)
          \/ ReadSecretKey(c)
          \/ GenerateSignature(c)
          \/ AssembleBody(c)
          \/ Send(c)
          \/ ReceiveFrom(c, ConfigResponses)
          \/ Return(c)

SpecConcurrent == Init /\ [][NextConcurrent]_vars

(***************************************************************************)
(* Properties.                                                             *)
(***************************************************************************)
\* the positions at which the params mapping of the call is complete
ParamsBuilt == {"apiKey", "secretKey", "sign", "body", "send", "wait"}
\* the envelope of the request in flight
Envelope(c) == wire[c].body[1]
\* the transport answered with a body that decodes as a response envelope
Decoded(c) ==
    /\ pc[c] = "returned"
    /\ res[c].kind = "reply"
    /\ res[c].bodyState = "json"
    /\ (res[c].hasCode => res[c].code # <<"x">>)

\* C1: GetDepositHistory and GetWithdrawalHistory called with PageSize < 0
\* or PageSize > 200 return an InvalidParameterError for req.PageSize and no
\* result, with no transport call, no id generated, no clock read, no
\* signature computed and no request built.
C1_PageSizeRejectedPreFlight ==
    \A c \in Callers :
        (/\ op[c] \in ListingOps
         /\ (req[c].PageSize < 0 \/ req[c].PageSize > 200))
        => /\ pc[c] = "returned"
           /\ ret[c].nil
           /\ ret[c].err # NilError
           /\ ret[c].err[1] = Layer("InvalidParameterError", "req.PageSize", 0, 0)
           /\ exchanges[c] = 0
           /\ trace[c] = <<>>
           /\ id[c] = 0
           /\ signature[c] = <<>>
           /\ wire[c] = NoWire
           /\ res[c] = NoResponse

C1_Witness ==
    /\ pc[MainCaller] = "returned"
    /\ op[MainCaller] = "GetWithdrawalHistory"
    /\ req[MainCaller].PageSize = 201
    /\ ret[MainCaller].err # NilError

\* C2: in GetDepositHistory and GetWithdrawalHistory a PageSize of 0 leaves
\* the params mapping without a page_size key, a PageSize in 1..200 puts
\* page_size = PageSize into it, in the mapping that is signed and in the one
\* that is sent, and such a call is not rejected with a parameter error.
C2_PageSizePassedThrough ==
    \A c \in Callers :
        (op[c] \in ListingOps /\ req[c].PageSize >= 0 /\ req[c].PageSize <= 200)
        => LET size == req[c].PageSize
               Right(m) == IF size = 0
                           THEN "page_size" \notin DOMAIN m
                           ELSE "page_size" \in DOMAIN m /\ m["page_size"] = size
           IN  /\ pc[c] \in ParamsBuilt => Right(params[c])
               /\ pc[c] \in {"sign", "body", "send", "wait"} => Right(sigReq[c].Params)
               /\ pc[c] = "wait" => Right(Envelope(c).params)
               /\ pc[c] = "returned" =>
                     \A i \in 1..Len(ret[c].err) :
                         ret[c].err[i].kind # "InvalidParameterError"

C2_Witness ==
    /\ pc[MainCaller] = "wait"
    /\ op[MainCaller] = "GetDepositHistory"
    /\ req[MainCaller].PageSize = 0
    /\ DOMAIN Envelope(MainCaller).params = {"page"}

\* C3: an answer with HTTP status >= 400 and the code 10003 of the code
\* table makes the operation return an error whose ResponseError has Code
\* 10003, the HTTP status of the answer and Err = ErrIllegalIP, and
\* errors.Is of the returned error and ErrIllegalIP holds.
C3_KnownCodeMapsToSentinel ==
    \A c \in Callers :
        (/\ Decoded(c)
         /\ res[c].status >= 400
         /\ res[c].hasCode
         /\ res[c].code = <<"1", "0", "0", "0", "3">>)
        => /\ ret[c].nil
           /\ HasResponseError(ret[c].err)
           /\ AsResponseError(ret[c].err).Code = 10003
           /\ AsResponseError(ret[c].err).HTTPStatusCode = res[c].status
           /\ AsResponseError(ret[c].err).Err = <<Sentinel("ErrIllegalIP")>>
           /\ ErrorsIs(ret[c].err, Sentinel("ErrIllegalIP"))

C3_Witness ==
    /\ Decoded(MainCaller)
    /\ op[MainCaller] = "GetTickers"
    /\ res[MainCaller].status = 418
    /\ res[MainCaller].hasCode
    /\ res[MainCaller].code = <<"1", "0", "0", "0", "3">>
    /\ HasResponseError(ret[MainCaller].err)

\* C4: once the answer is decoded, the operation returns the result without
\* error if and only if the HTTP status is below 400 and the code is 0 or
\* absent.
C4_SuccessIffStatusAndCodeOK ==
    \A c \in Callers :
        Decoded(c)
        => (ret[c].err = NilError
            <=> /\ res[c].status < 400
                /\ (~res[c].hasCode \/ res[c].code = <<"0">>))

\* C5: a code that is a number but no integer never gives success and never
\* gives a ResponseError, whatever the HTTP status.
C5_NonIntegerCodeIsDecodingFailure ==
    \A c \in Callers :
        (/\ pc[c] = "returned"
         /\ res[c].kind = "reply"
         /\ res[c].bodyState = "json"
         /\ res[c].hasCode
         /\ res[c].code \in {<<"1", ".", "5">>, <<"x">>})
        => /\ ret[c].err # NilError
           /\ ~HasResponseError(ret[c].err)

\* C6: an answer with HTTP status >= 400 and an integer code outside the
\* code table makes the operation return an error whose ResponseError
\* carries that code and the HTTP status of the answer; it is never success.
C6_UnknownCodeKept ==
    \A c \in Callers :
        (/\ Decoded(c)
         /\ res[c].status >= 400
         /\ res[c].hasCode
         /\ res[c].code \in {<<"4", "2">>, <<"0">>})
        => /\ ret[c].nil
           /\ ret[c].err # NilError
           /\ HasResponseError(ret[c].err)
           /\ AsResponseError(ret[c].err).Code =
                 (IF res[c].code = <<"0">> THEN 0 ELSE 42)
           /\ AsResponseError(ret[c].err).HTTPStatusCode = res[c].status

C6_Witness ==
    /\ Decoded(MainCaller)
    /\ op[MainCaller] = "GetDepositHistory"
    /\ res[MainCaller].status = 400
    /\ res[MainCaller].hasCode
    /\ res[MainCaller].code = <<"4", "2">>
    /\ AsResponseError(ret[MainCaller].err).Code = 42

\* C7: with UpdateConfig("k2", "s2") running beside a private call on a
\* Client configured with ("k1", "s1"), the api key and the secret key given
\* to the signature generator and the api_key of the envelope sent all come
\* from one configuration.
C7_ConsistentCredentials ==
    \A c \in Callers :
        (pc[c] = "wait" /\ op[c] \in PrivateOps)
        => /\ <<sigReq[c].APIKey, sigReq[c].SecretKey>> \in {<<"k1", "s1">>, <<"k2", "s2">>}
           /\ Envelope(c).api_key = sigReq[c].APIKey

\* C8: with no configuration change during the call, the envelope a private
\* endpoint hands to the transport has the id, method, nonce, params and
\* api_key that were given to the signature generator, and its sig is the
\* signature the generator returned for them.
C8_EnvelopeIsWhatWasSigned ==
    \A c \in Callers :
        (pc[c] = "wait" /\ op[c] \in PrivateOps)
        => /\ wire[c].body # <<>>
           /\ Envelope(c).id = sigReq[c].ID
           /\ Envelope(c).method = sigReq[c].Method
           /\ Envelope(c).nonce = sigReq[c].Timestamp
           /\ Envelope(c).params = sigReq[c].Params
           /\ "api_key" \in DOMAIN Envelope(c)
           /\ Envelope(c).api_key = sigReq[c].APIKey
           /\ "sig" \in DOMAIN Envelope(c)
           /\ Envelope(c).sig = signature[c]
           /\ signature[c] = Sign(sigReq[c])

C8_Witness ==
    /\ pc[MainCaller] = "wait"
    /\ op[MainCaller] = "CreateWithdrawal"
    /\ apiKey = "k2"
    /\ timestamp[MainCaller] = 1
    /\ DOMAIN Envelope(MainCaller).params = {"currency", "amount", "address"}

\* C9: every public endpoint call goes out as a GET without a request body,
\* without sig and api_key, and without a call of the signature generator.
C9_PublicCallIsBareGet ==
    \A c \in Callers :
        (pc[c] = "wait" /\ op[c] \in PublicOps)
        => /\ wire[c].httpMethod = "GET"
           /\ wire[c].body = <<>>
           /\ \A i \in 1..Len(trace[c]) : trace[c][i] # "sign"

C11_AtMostOneExchange ==
    \A c \in Callers :
        /\ exchanges[c] <= 1
        /\ pc[c] = "wait" => exchanges[c] = 1
        /\ res[c] # NoResponse => (pc[c] = "returned" /\ exchanges[c] = 1)
        /\ (pc[c] = "returned" /\ res[c] = NoResponse) => exchanges[c] = 0

C11_Witness ==
    /\ pc[MainCaller] = "returned"
    /\ op[MainCaller] = "GetDepositHistory"
    /\ exchanges[MainCaller] = 1
    /\ res[MainCaller].kind = "error"
    /\ ret[MainCaller].err # NilError

\* C12: the caller that asks for page 0, 1, 2, ... until a call returns an
\* empty list comes to a stop; against a server with NonEmptyPages pages
\* with entries it never asks for a page beyond page NonEmptyPages, each of
\* its calls hands exactly one request to the transport and that request
\* carries the page of the call, the calls for the pages below NonEmptyPages
\* return entries and the call for page NonEmptyPages, its NonEmptyPages + 1st
\* call, returns the empty list, after which no further call follows.
C12_EnumerationStops ==
    /\ [](\A c \in Callers :
            op[c] \in ListingOps
            => /\ req[c].Page <= NonEmptyPages
               /\ exchanges[c] <= 1
               /\ pc[c] = "wait"
                     => /\ exchanges[c] = 1
                        /\ "page" \in DOMAIN Envelope(c).params
                        /\ Envelope(c).params.page = req[c].Page
               /\ (pc[c] = "returned" /\ ret[c].err = NilError)
                     => /\ exchanges[c] = 1
                        /\ (ret[c].result = <<>>) <=> (req[c].Page = NonEmptyPages)
                        /\ (ret[c].result = <<>>) => ~ENABLED NextPage(c))
    /\ <>(/\ pc[MainCaller] = "returned"
          /\ \/ ret[MainCaller].err # NilError
             \/ /\ req[MainCaller].Page = NonEmptyPages
                /\ ret[MainCaller].result = <<>>)

C12_Witness ==
    /\ pc[MainCaller] = "returned"
    /\ op[MainCaller] = "GetWithdrawalHistory"
    /\ req[MainCaller].Page = NonEmptyPages
    /\ exchanges[MainCaller] = 1
    /\ ret[MainCaller].err = NilError
    /\ ret[MainCaller].result = <<>>

\* C13: GetDepositHistory and GetWithdrawalHistory called with a Start and
\* an End more than 24 hours apart are not refused with a parameter error
\* and hand exactly one request to the transport, whose start_ts and end_ts
\* are Start and End in milliseconds; when the answer has an HTTP status
\* >= 400 and the code of INVALID_DATE_RANGE the call returns no list and an
\* error whose ResponseError has that code and ErrInvalidDateRange.
C13_WideRangeSentOnce ==
    \A c \in Callers :
        (/\ op[c] \in ListingOps
         /\ ~IsZero(req[c].Start)
         /\ ~IsZero(req[c].End)
         /\ UnixMilli(req[c].End) - UnixMilli(req[c].Start) > 24 * 3600000)
        => /\ pc[c] # "idle"
           /\ exchanges[c] <= 1
           /\ pc[c] = "wait"
                 => /\ exchanges[c] = 1
                    /\ {"start_ts", "end_ts"} \subseteq DOMAIN Envelope(c).params
                    /\ Envelope(c).params.start_ts = UnixMilli(req[c].Start)
                    /\ Envelope(c).params.end_ts = UnixMilli(req[c].End)
           /\ pc[c] = "returned"
                 => \A i \in 1..Len(ret[c].err) :
                        ret[c].err[i].kind # "InvalidParameterError"
           /\ (/\ Decoded(c)
               /\ res[c].status >= 400
               /\ res[c].hasCode
               /\ res[c].code = InvalidDateRange)
                 => /\ exchanges[c] = 1
                    /\ ret[c].nil
                    /\ ret[c].result = <<>>
                    /\ HasResponseError(ret[c].err)
                    /\ AsResponseError(ret[c].err).Code = Int64(InvalidDateRange).val
                    /\ AsResponseError(ret[c].err).HTTPStatusCode = res[c].status
                    /\ ErrorsIs(ret[c].err, Sentinel("ErrInvalidDateRange"))

C13_Witness ==
    /\ Decoded(MainCaller)
    /\ op[MainCaller] = "GetDepositHistory"
    /\ req[MainCaller].Start = TimeAt(0)
    /\ req[MainCaller].End = TimeAt(30 * 3600000)
    /\ res[MainCaller].status = 400
    /\ res[MainCaller].code = InvalidDateRange
    /\ ErrorsIs(ret[MainCaller].err, Sentinel("ErrInvalidDateRange"))

\* C14: the params of GetDepositHistory and GetWithdrawalHistory, as built
\* and as sent, hold currency, page_size, start_ts, end_ts and status exactly
\* when the caller set the field, with the caller's value and never with an
\* empty string or a 0 standing for an unset field, and always hold page;
\* with Currency = "BTC", Page = 0 and nothing else set they are exactly
\* currency = "BTC" and page = 0.
C14_OptionalParamsOmitted ==
    \A c \in Callers :
        op[c] \in ListingOps
        => LET r == req[c]
               Right(m) ==
                   /\ DOMAIN m \subseteq {"currency", "page_size", "start_ts",
                                          "end_ts", "page", "status"}
                   /\ "currency" \in DOMAIN m <=> r.Currency # ""
                   /\ "page_size" \in DOMAIN m <=> r.PageSize # 0
                   /\ "start_ts" \in DOMAIN m <=> ~IsZero(r.Start)
                   /\ "end_ts" \in DOMAIN m <=> ~IsZero(r.End)
                   /\ "status" \in DOMAIN m <=> r.Status # ""
                   /\ "page" \in DOMAIN m
                   /\ m["page"] = r.Page
                   /\ "currency" \in DOMAIN m => m["currency"] = r.Currency
                   /\ "page_size" \in DOMAIN m => m["page_size"] = r.PageSize
                   /\ "start_ts" \in DOMAIN m => m["start_ts"] = UnixMilli(r.Start)
                   /\ "end_ts" \in DOMAIN m => m["end_ts"] = UnixMilli(r.End)
                   /\ "status" \in DOMAIN m => m["status"] = r.Status
                   /\ (/\ r.Currency = "BTC" /\ r.Page = 0 /\ r.PageSize = 0
                       /\ IsZero(r.Start) /\ IsZero(r.End) /\ r.Status = "")
                         => m = [currency |-> "BTC", page |-> 0]
           IN  /\ pc[c] \in ParamsBuilt => Right(params[c])
               /\ pc[c] = "wait" => Right(Envelope(c).params)

C14_Witness ==
    /\ pc[MainCaller] = "wait"
    /\ op[MainCaller] = "GetWithdrawalHistory"
    /\ req[MainCaller].Currency = "BTC"
    /\ req[MainCaller].Status = ""
    /\ req[MainCaller].Page = 0
    /\ Envelope(MainCaller).params = [currency |-> "BTC", page |-> 0]

\* two parameter values with the same content: the same keys with the same
\* values, whatever the order the mappings were built in
RECURSIVE SameContent(_, _)
SameContent(v, w) ==
    /\ v.t = w.t
    /\ v.s = w.s
    /\ v.n = w.n
    /\ Len(v.e) = Len(w.e)
    /\ v.t = "array" => \A i \in 1..Len(v.e) : SameContent(v.e[i], w.e[i])
    /\ v.t = "mapping" =>
          \A i \in 1..Len(v.e) :
              \E j \in 1..Len(w.e) :
                  /\ v.e[i].k = w.e[j].k
                  /\ SameContent(v.e[i].v, w.e[j].v)

\* the entries of every mapping inside a parameter value, level by level
RECURSIVE Levels(_)
Levels(v) ==
    CASE v.t = "mapping" ->
            {v.e} \cup UNION {Levels(v.e[i].v) : i \in 1..Len(v.e)}
      [] v.t = "array" -> UNION {Levels(v.e[i]) : i \in 1..Len(v.e)}
      [] OTHER -> {}

\* where the key stands in the string
Position(str, key) == CHOOSE i \in 1..Len(str) : str[i] = key

\* C15: the canonical strings of two parameter structures with the same
\* content are the same string, in whatever order the structures were
\* built; in the canonical string the keys of every mapping, nested ones
\* included, stand in ascending order and the elements of an array follow
\* its key in the order they have in the array; the structure with
\* currency = "BTC" and page = 0 gives currencyBTCpage0.
C15_CanonicalOfContent ==
    /\ \A c, d \in Callers :
          (/\ structure[c] # NoStructure
           /\ structure[d] # NoStructure
           /\ SameContent(structure[c], structure[d]))
          => canonical[c] = canonical[d]
    /\ \A c \in Callers :
          structure[c] # NoStructure
          => /\ \A level \in Levels(structure[c]) :
                    \A i, j \in 1..Len(level) :
                        /\ \E p \in 1..Len(canonical[c]) : canonical[c][p] = level[i].k
                        /\ Rank(level[i].k) < Rank(level[j].k)
                              => Position(canonical[c], level[i].k)
                                    < Position(canonical[c], level[j].k)
                        /\ level[i].v.t = "array"
                              => \A x \in 1..Len(level[i].v.e) :
                                     <<canonical[c][Position(canonical[c], level[i].k) + x]>>
                                        = FormatInt(level[i].v.e[x].n)
             /\ SameContent(structure[c],
                            Mapping(<<Entry("currency", Text("BTC")),
                                      Entry("page", Number(0))>>))
                    => canonical[c] = <<"currency", "BTC", "page", "0">>

C15_Witness ==
    /\ structure["g1"] # NoStructure
    /\ structure["g1"] # structure["g2"]
    /\ SameContent(structure["g1"], structure["g2"])
    /\ Len(structure["g1"].e) = MaxKeys
    /\ structure["g1"].e[1].k = "page"
    /\ structure["g2"].e[1].k = "filter"
    /\ Len(structure["g2"].e[1].v.e) = 2
    /\ structure["g2"].e[1].v.e[1].k = "b"
    /\ canonical["g1"] = canonical["g2"]

\* the operation came to build its *http.Request and returned without an
\* answer of the transport
RequestNotBuilt(c) ==
    /\ pc[c] = "returned"
    /\ res[c] = NoResponse
    /\ \/ op[c] \in {"GetBook", "GetTickers"}
       \/ (trace[c] # <<>> /\ trace[c][Len(trace[c])] = "envelope")

\* C16: when Client.Do returns an error, and when the request cannot be
\* built from a malformed base URL, the operation returns no result and an
\* error that is not nil, for which errors.Is with the error of the
\* transport holds and in which there is no ResponseError.
C16_TransportErrorWrapped ==
    \A c \in Callers :
        /\ (pc[c] = "returned" /\ res[c].kind = "error")
              => /\ ret[c].nil
                 /\ ret[c].result = <<>>
                 /\ ret[c].err # NilError
                 /\ ErrorsIs(ret[c].err, Layer("transport", res[c].cause, 0, 0))
                 /\ ~HasResponseError(ret[c].err)
        /\ RequestNotBuilt(c)
              => /\ requester.BaseURL = malformedBaseURL
                 /\ ret[c].nil
                 /\ ret[c].result = <<>>
                 /\ ret[c].err # NilError
                 /\ ErrorsIs(ret[c].err, Layer("url", "missing protocol scheme", 0, 0))
                 /\ ~HasResponseError(ret[c].err)
                 /\ exchanges[c] = 0

C16_Witness ==
    /\ pc[MainCaller] = "returned"
    /\ op[MainCaller] = "GetBook"
    /\ res[MainCaller].kind = "error"
    /\ res[MainCaller].cause = "connection refused"
    /\ Len(ret[MainCaller].err) = 2

\* C17: an operation that waits for the transport with a context that is
\* done returns in the end, without a result and with an error for which
\* errors.Is with the error of the context holds and in which there is no
\* ResponseError.
C17_CancelledCallReturns ==
    \A c \in Callers :
        (pc[c] = "wait" /\ ctx[c] \in ContextErrors)
        ~> (/\ pc[c] = "returned"
            /\ ctx[c] \in ContextErrors
            /\ ret[c].nil
            /\ ret[c].err # NilError
            /\ ErrorsIs(ret[c].err, Layer("transport", ctx[c], 0, 0))
            /\ ~HasResponseError(ret[c].err))

C17_Witness ==
    /\ pc[MainCaller] = "returned"
    /\ op[MainCaller] = "GetTickers"
    /\ ctx[MainCaller] = "context deadline exceeded"
    /\ exchanges[MainCaller] = 1
    /\ ErrorsIs(ret[MainCaller].err,
                Layer("transport", "context deadline exceeded", 0, 0))

\* the options that set the base URL, and the base URL each of them sets
BaseURLOptions == {"WithProductionEnvironment", "WithUATEnvironment", "WithBaseURL"}
BaseURLOf(o) ==
    CASE o.name = "WithProductionEnvironment" -> productionBaseURL
      [] o.name = "WithUATEnvironment" -> uatSandboxBaseURL
      [] o.name = "WithBaseURL" -> o.url

\* C18: the Client New made without options has the production base URL;
\* New sets it to the production base URL before its options run; an option
\* WithProductionEnvironment, WithUATEnvironment or WithBaseURL that
\* applies sets it to its URL; no other step changes it, so that an
\* UpdateConfig without such an option leaves it as it was; a request goes
\* to the base URL the Client has; the production and the UAT base URL are
\* the same but for the host.
C18_BaseURLOfLastOption ==
    /\ requester.BaseURL = productionBaseURL
    /\ [][LET applies ==
                  /\ ucPc = "opts"
                  /\ ucArgs.opts # <<>>
                  /\ OptionError(Head(ucArgs.opts)) = NilError
                  /\ ucArgs'.opts = Tail(ucArgs.opts)
          IN  IF applies /\ Head(ucArgs.opts).name \in BaseURLOptions
              THEN requester'.BaseURL = BaseURLOf(Head(ucArgs.opts))
              ELSE IF ucPc = "idle" /\ ucArgs'.new
              THEN requester'.BaseURL = productionBaseURL
              ELSE requester'.BaseURL = requester.BaseURL]_vars
    /\ [](\A c \in Callers :
            pc[c] = "wait" => SubSeq(wire[c].url, 1, 3) = requester.BaseURL)
    /\ [](/\ Len(productionBaseURL) = 3
          /\ Len(uatSandboxBaseURL) = 3
          /\ productionBaseURL[1] = uatSandboxBaseURL[1]
          /\ productionBaseURL[2] # uatSandboxBaseURL[2]
          /\ productionBaseURL[3] = uatSandboxBaseURL[3])

C18_Witness ==
    /\ pc[MainCaller] = "wait"
    /\ SubSeq(wire[MainCaller].url, 1, 3) = uatSandboxBaseURL
    /\ clock = "FakeClock"
    /\ apiKey = "k2"

\* the steps of building and sending the request of a private endpoint
BuildSteps == <<"id", "clock", "sign", "envelope", "transport">>

\* C19: in a private endpoint call the id is generated, the clock is read,
\* the signature is generated, the envelope is assembled and the transport
\* is called, in this order and each once; the signature is generated over
\* the id generated, the value read from the clock and the params built,
\* and the envelope sent has that id and has that value, the clock in
\* milliseconds at the time it was read, as its nonce; the nonce of a
\* request is never below the nonce of the request sent before it.
C19_BuildOrderAndNonce ==
    /\ [](\A c \in Callers :
            op[c] \in PrivateOps
            => /\ \A i \in 1..Len(trace[c]) :
                      IF i <= Len(BuildSteps)
                      THEN trace[c][i] = BuildSteps[i]
                      ELSE trace[c][i] \in {"decode", "classify"}
               /\ pc[c] = "wait"
                     => /\ trace[c] = BuildSteps
                        /\ sigReq[c].ID = id[c]
                        /\ sigReq[c].Timestamp = timestamp[c]
                        /\ sigReq[c].Params = params[c]
                        /\ signature[c] = Sign(sigReq[c])
                        /\ Envelope(c).id = id[c]
                        /\ Envelope(c).nonce = timestamp[c]
                        /\ Envelope(c).sig = signature[c]
                        /\ Envelope(c).nonce <= now)
    /\ [][\A c \in Callers :
             /\ (pc[c] = "clock" /\ pc'[c] # "clock") => timestamp'[c] = now
             /\ (pc[c] = "send" /\ pc'[c] = "wait" /\ op[c] \in PrivateOps
                 /\ requester.Client = "customClient")
                   => lastNonce'[c] = <<Envelope(c)'.nonce>>
             /\ (lastNonce[c] # NoNonce /\ lastNonce'[c] # lastNonce[c])
                   => lastNonce'[c][1] >= lastNonce[c][1]]_vars

C19_Witness ==
    /\ pc[MainCaller] = "send"
    /\ op[MainCaller] = "GetDepositAddress"
    /\ trace[MainCaller] = SubSeq(BuildSteps, 1, 4)
    /\ requester.Client = "customClient"
    /\ lastNonce[MainCaller] = <<0>>
    /\ body[MainCaller].Nonce = 1

\* UpdateConfig, called by the program or by New, was given an empty api
\* key or an empty secret key
EmptyCredentials(args) == args.apiKey = "" \/ args.secretKey = ""

\* C20: UpdateConfig called with an empty apiKey or an empty secretKey
\* returns at once an InvalidParameterError for apiKey when apiKey is empty
\* and else for secretKey; it assigns neither c.apiKey nor c.secretKey and
\* runs no option, so that the Client is as it was before the call; New
\* then hands out no Client.
C20_EmptyCredentialsRejected ==
    /\ [](/\ ucPc \in {"apiKey", "secretKey", "opts"} => ~EmptyCredentials(ucArgs)
          /\ (ucPc = "returned" /\ EmptyCredentials(ucArgs))
                => /\ ucRet # NilError
                   /\ ucRet[1] = Layer("InvalidParameterError",
                                       IF ucArgs.apiKey = "" THEN "apiKey"
                                       ELSE "secretKey", 0, 0)
                   /\ ucArgs.new => client = "nil")
    /\ [][/\ (ucPc = "idle" /\ ucPc' # "idle" /\ EmptyCredentials(ucArgs'))
                => /\ ucPc' = "returned"
                   /\ ~ucArgs'.new => UNCHANGED cfgVars
                   /\ ucArgs'.new
                         => /\ requester' = [Client |-> "http.DefaultClient",
                                             BaseURL |-> productionBaseURL]
                            /\ clock' = "RealClock"
                            /\ idGenerator' = "id.Generator"
          /\ (ucPc = "returned" /\ EmptyCredentials(ucArgs))
                => /\ UNCHANGED cfgVars
                   /\ ucPc' = "idle"
                   /\ client' = IF ucArgs.new THEN "nil" ELSE client]_vars

C20_Witness ==
    /\ ucPc = "returned"
    /\ ucArgs.new
    /\ ucArgs.apiKey = ""
    /\ ucArgs.secretKey = ""
    /\ ucArgs.opts # <<>>
    /\ ucRet[1].name = "apiKey"
    /\ client = "nil"


(***************************************************************************)
(* UpdateConfig that fails.                                                *)
(***************************************************************************)

\* C21: whenever UpdateConfig returns an error, whether for an empty
\* credential or for an option that fails, the Client's apiKey, secretKey,
\* base URL, HTTP client, clock, id generator and signature generator are
\* what they were when UpdateConfig was called.
C21_FailedUpdateLeavesConfig ==
    (ucPc = "returned" /\ ucRet # NilError) => CurrentConfig = before


(***************************************************************************)
(* The signature generator fails.                                          *)
(***************************************************************************)

\* the operation of caller c returned from its call of GenerateSignature
SignatureFailed(c) ==
    /\ pc[c] = "returned"
    /\ trace[c] # <<>>
    /\ trace[c][Len(trace[c])] = "sign"

\* C22: a private operation whose call of GenerateSignature gives an error
\* returns no result and an error for which errors.Is with the error of the
\* generator holds, and it has handed no request to the transport; an
\* operation leaves the signing step either for the envelope or by
\* returning so.
C22_SignatureErrorReturned ==
    /\ [](\A c \in Callers :
            SignatureFailed(c)
               => /\ op[c] \in PrivateOps
                  /\ ret[c].nil
                  /\ ret[c].result = <<>>
                  /\ ret[c].err # NilError
                  /\ ret[c].err[1] = Layer("wrap", "failed to create signature", 0, 0)
                  /\ ErrorsIs(ret[c].err, Layer("errorf", "signature error", 0, 0))
                  /\ exchanges[c] = 0
                  /\ res[c] = NoResponse
                  /\ wire[c] = NoWire
                  /\ \A i \in 1..Len(trace[c]) : trace[c][i] # "transport")
    /\ [][\A c \in Callers :
            (pc[c] = "sign" /\ pc'[c] # "sign")
               => \/ pc'[c] = "body" /\ signature'[c] = Sign(sigReq[c])
                  \/ SignatureFailed(c)']_vars

C22_Witness ==
    /\ SignatureFailed(MainCaller)
    /\ op[MainCaller] = "CreateWithdrawal"
    /\ Len(ret[MainCaller].err) = 2
    /\ exchanges[MainCaller] = 0


(***************************************************************************)
(* Decoding and classification.                                            *)
(***************************************************************************)

\* the body of the answer to caller c was read and json.Unmarshal gave an
\* error for it
NotDecoded(c) ==
    /\ pc[c] = "returned"
    /\ res[c].kind = "reply"
    /\ res[c].bodyState # "unreadable"
    /\ ~Unmarshal(res[c]).ok

\* CheckErrorResponse ran in the operation of caller c
Classified(c) == \E i \in 1..Len(trace[c]) : trace[c][i] = "classify"

\* C23: when json.Unmarshal fails on the response body the operation
\* returns no result and the wrapped error of json.Unmarshal, whatever the
\* HTTP status, CheckErrorResponse has not run and the error holds no
\* ResponseError; CheckErrorResponse runs only right after a json.Unmarshal
\* that gave no error, and a ResponseError comes from CheckErrorResponse
\* only.
C23_DecodingBeforeClassification ==
    \A c \in Callers :
        /\ NotDecoded(c)
              => /\ ret[c].nil
                 /\ ret[c].result = <<>>
                 /\ ErrorsIs(ret[c].err, Layer("json", "cannot unmarshal", 0, 0))
                 /\ ~HasResponseError(ret[c].err)
                 /\ ~Classified(c)
                 /\ trace[c][Len(trace[c])] = "decode"
        /\ \A i \in 1..Len(trace[c]) :
              trace[c][i] = "classify"
                 => /\ i > 1
                    /\ trace[c][i - 1] = "decode"
                    /\ res[c].kind = "reply"
                    /\ Unmarshal(res[c]).ok
        /\ (pc[c] = "returned" /\ HasResponseError(ret[c].err)) => Classified(c)

C23_Witness ==
    /\ NotDecoded(MainCaller)
    /\ op[MainCaller] = "GetTickers"
    /\ res[MainCaller].status = 418
    /\ res[MainCaller].bodyState = "malformed"
    /\ ret[MainCaller].err # NilError


(***************************************************************************)
(* Calls at the same time.                                                 *)
(***************************************************************************)

\* what the operation of caller c sends when it runs alone with its
\* request, the id it was given and the time it read
OwnEnvelope(c) ==
    LET ps == ParamsOf(op[c], req[c])
    IN  Marshal(SignedRequest(op[c], id[c], timestamp[c], ps,
                              Sign([APIKey |-> apiKey, SecretKey |-> secretKey,
                                    ID |-> id[c], Method |-> MethodOf(op[c]),
                                    Timestamp |-> timestamp[c], Params |-> ps]),
                              apiKey))

\* C24: with calls of two goroutines in progress on one Client and no
\* UpdateConfig, in every interleaving of their steps the envelope each call
\* hands to the transport has the method and the params of that call's own
\* request and the id, nonce and signature that call obtained: it is the
\* envelope the call sends when it runs alone.
C24_CallsDoNotInterfere ==
    \A c \in Callers :
        /\ pc[c] \in ParamsBuilt => params[c] = ParamsOf(op[c], req[c])
        /\ pc[c] = "wait"
              => /\ wire[c].body # <<>>
                 /\ Envelope(c) = OwnEnvelope(c)
                 /\ Envelope(c).method = MethodOf(op[c])
                 /\ Envelope(c).id = id[c]
                 /\ Envelope(c).nonce = timestamp[c]
                 /\ Envelope(c).params = ParamsOf(op[c], req[c])

C24_Witness ==
    /\ pc["g1"] = "wait"
    /\ pc["g2"] = "wait"
    /\ op["g1"] = "GetDepositHistory"
    /\ op["g2"] = "GetWithdrawalHistory"
    /\ req["g1"].Currency = "BTC"
    /\ req["g2"].Currency = ""
    /\ id["g1"] # id["g2"]
    /\ timestamp["g1"] # timestamp["g2"]
    /\ Envelope("g1") # Envelope("g2")

====
